---- MODULE Spec2Model ----
(***************************************************************************)
(* A model of the boost (WebGL) rendering subsystem and of three functions *)
(* of the chart library:                                                    *)
(*   - GLShader, the shader program manager   (ts/modules/boost/wgl-shader) *)
(*   - the vertex shader's translate() and bubbleRadius()      (wgl-shader) *)
(*   - Series.renderCanvas / processPoint, preRender and canvasToSVG        *)
(*                                             (ts/modules/boost/boost-init) *)
(*   - Chart.hideOverlappingLabels             (js/masters/highcharts.src)  *)
(*   - the polar getGraphPath wrapper and Williams %R getValues             *)
(*                                             (ts/indicators/williams-r)   *)
(* Each part has its own specification; the variables of the other parts    *)
(* keep their initial values.                                               *)
(***************************************************************************)
EXTENDS Integers, Sequences, FiniteSets, TLC

\* ------------------------------------------------------------------------
\* Bounds
\* ------------------------------------------------------------------------

\* createShader() calls on one manager, the one made by GLShader(gl) included
MaxCreates == 3

\* longest series data
MaxLen == 3

\* ------------------------------------------------------------------------
\* Program constants
\* ------------------------------------------------------------------------

\* Number.MAX_VALUE, scaled down: larger than every z value of the model
MAX_VALUE == 1000

\* an optional value: None is undefined, Some(v) is the value v
None == <<>>

Some(v) == <<v>>

\* ========================================================================
\* PART 1 - GLShader(gl): the shader program manager
\* ========================================================================

VARIABLES
    gl,              \* TRUE iff the WebGL context passed to GLShader is present
    handle,          \* TRUE iff GLShader(gl) returned the handle (FALSE: it returned false)
    shaderProgram,   \* 0: absent (undefined/false); p > 0: the p-th program created
    uLocations,      \* cache name -> program the cached location was resolved against (0: none)
    stdUniforms,     \* program the ten handles pUniform .. isInverted were resolved against
    errors,          \* the error stack: diagnostics pushed, each tagged with its attempt
    programsCreated, \* gl.createProgram calls so far: program ids are 1..programsCreated
    deleteCount,     \* program id -> number of gl.deleteProgram calls on it
    errorCalls,      \* number of H.error calls so far
    lastReport,      \* the diagnostics joined into the last H.error message
    uniformVal,      \* values last written to the draw-flag uniforms isBubble, isCircle
    attemptNo,       \* number of createShader() calls so far
    attempt,         \* outcome of the steps of the last createShader() call
    phase,           \* why shaderProgram is what it is: "none","live","failed","destroyed"
    lastOp,          \* the operation that made the last step
    lastGl,          \* the GPU calls that operation made, in order
    lastRet,         \* what that operation returned (create: TRUE/FALSE)
    threw            \* TRUE iff that operation raised an error

shVars == <<gl, handle, shaderProgram, uLocations, stdUniforms, errors,
            programsCreated, deleteCount, errorCalls, lastReport, uniformVal,
            attemptNo, attempt, phase, lastOp, lastGl, lastRet, threw>>

\* translate(): the call of the vertex shader's translate()
VARIABLES
    tPc,    \* "in": the arguments are chosen; "done": translate has returned
    tIn,    \* the arguments of translate
    tOut    \* the value translate returned (0 before it has)

trVars == <<tPc, tIn, tOut>>

\* bubbleRadius(): the call of the vertex shader's bubbleRadius()
VARIABLES
    bPc,    \* "in": the vertex and the uniforms are chosen; "done": it has returned
    bIn,    \* the vertex's w and the bubble uniforms
    bOut    \* the point size returned (0 before it has)

brVars == <<bPc, bIn, bOut>>

\* Chart.hideOverlappingLabels(labels)
VARIABLES
    hPc,     \* "in": the labels are collected; "done": it has returned
    labels,  \* the labels array: the ids of the label objects, in array order
    labelObj \* label id -> the label object: labelrank, absoluteBox, newOpacity

hlVars == <<hPc, labels, labelObj>>

\* the polar wrapper of Series.getGraphPath(points)
VARIABLES
    gCalls,     \* calls of getGraphPath made on the points array so far
    gPoints,    \* the points array handed to getGraphPath: [id, isNull, polarPlotY]
    gGiven,     \* the ids of the points of the array before the first call
    gProceed,   \* the ids of the points of the array as the wrapped method got it last
    polar,      \* chart.polar
    connectEnds \* options.connectEnds !== false

gpVars == <<gCalls, gPoints, gGiven, gProceed, polar, connectEnds>>

\* Williams %R: getValues(series, params)
VARIABLES
    wPc,    \* "in": the series and the period are chosen; "done": it has returned
    wIn,    \* [xData, yData, period]
    wOut    \* what getValues returned: [ok, values, xData, yData], ok FALSE for false

wrVars == <<wPc, wIn, wOut>>

\* the variables of the functions modelled on their own
fnVars == <<brVars, hlVars, gpVars, wrVars>>

\* renderCanvas: the series and chart it reads
VARIABLES
    data,                \* the series' data, each point [x, y]; y is None for null
    sampling,            \* series.sampling
    compareX,            \* options.findNearestPointBy === 'x'
    inverted,            \* chart.inverted
    requireSorting,      \* series.requireSorting
    enableMouseTracking, \* options.enableMouseTracking !== false
    visible,             \* series.visible
    forExport,           \* chart.renderer.forExport
    chartBoosting,       \* chart.isChartSeriesBoosting()
    chartAlive           \* chart.index is defined: the chart is not destroyed

\* renderCanvas: what it writes on the series and the chart
VARIABLES
    isBoosting,          \* chart.isBoosting
    markerGroup,         \* series.markerGroup: "none", "private" or "chart"
    renderTarget,        \* the series has a render target of its own
    chartRenderTarget,   \* the chart has a render target
    buildKDTree,         \* series.buildKDTree: "proto" (the prototype's) or "noop"
    kdBuilt,             \* the k-d tree has been built from the current points
    rendered,            \* 'renderedCanvas' has been fired for the current pass
    notifyView,          \* None, or Some(what a 'renderedCanvas' listener found when called)
    doneLists,           \* the reduced point lists of the first two passes that completed
    pending,             \* the earlier passes whose streams have chunks to come: [C, pos]
    didBoost,            \* chart.didBoost
    chartBuffer,         \* ogl.allocateBuffer(chart) has been called since the last predraw
    preCalls,            \* the calls the last preRender made on the chart, in order
    groupDestroyed,      \* the marker group the last renderCanvas destroyed: "none",
                         \* "private" or "chart"
    drewChart            \* the last 'render' event called ogl.render(chart)

\* renderCanvas: the closure of one pass and the position of its stream
VARIABLES
    points,              \* the reduced point list (series.points)
    pointTaken,          \* the dedup keys registered
    lastClientX,         \* None, or Some(clientX of the last flush)
    minI,                \* None, or Some(index of the running minimum)
    maxI,                \* None, or Some(index of the running maximum)
    minVal,              \* None, or Some(running minimum)
    maxVal,              \* None, or Some(running maximum)
    axisReads,           \* toPixels calls the pass has made on its axes
    pos,                 \* eachAsync's i: the points before it have been processed
    pc                   \* "idle", "streaming", "skipped" (export), "done", or "halted"

rcConfig == <<data, sampling, compareX, inverted, requireSorting,
              enableMouseTracking, visible, forExport, chartBoosting>>

rcClosure == <<points, pointTaken, lastClientX, minI, maxI, minVal, maxVal, axisReads>>

\* the series' spatial index and what its listeners have been told
rcIndex == <<buildKDTree, kdBuilt, rendered, notifyView>>

\* what preRender writes on the chart
rcChart == <<isBoosting, didBoost, chartBuffer, preCalls>>

\* what the handlers did to the chart's and the series' graphics
rcEffects == <<groupDestroyed, drewChart>>

rcVars == <<rcConfig, chartAlive, markerGroup, renderTarget, chartRenderTarget,
            rcIndex, rcChart, rcEffects, doneLists, pending, rcClosure, pos, pc>>

\* uniforms set by the renderer through setUniform(name, val)
AxisUniforms == {"xAxisTrans"}

\* uniforms set by setBubbleUniforms through setUniform(name, val)
BubbleUniforms == {"bubbleZMin", "bubbleZMax", "bubbleZThreshold",
                   "bubbleMinSize", "bubbleMaxSize"}

UniformNames == AxisUniforms \cup BubbleUniforms

\* uniforms whose last written value the model keeps
TrackedUniforms == {"isBubble", "isCircle"}

\* one GPU call: the gl function, the program its program/location argument
\* belongs to (0: none), the shader type or uniform it names, its number argument
Gl(fn, prog, name, val) == [fn |-> fn, prog |-> prog, name |-> name, val |-> val]

\* The closure state of GLShader together with what it has done to the GPU
\* and the host so far; the operations below map such a record to the next.
Cur == [shaderProgram |-> shaderProgram, uLocations |-> uLocations,
        stdUniforms |-> stdUniforms, errors |-> errors,
        programsCreated |-> programsCreated, deleteCount |-> deleteCount,
        errorCalls |-> errorCalls, lastReport |-> lastReport,
        uniformVal |-> uniformVal, glCalls |-> <<>>]

\* the closure state before GLShader's body has run
Blank == [shaderProgram |-> 0, uLocations |-> [n \in UniformNames |-> 0],
          stdUniforms |-> 0, errors |-> <<>>,
          programsCreated |-> 0, deleteCount |-> [p \in 1..(MaxCreates + 1) |-> 0],
          errorCalls |-> 0, lastReport |-> <<>>,
          uniformVal |-> [n \in TrackedUniforms |-> None], glCalls |-> <<>>]

Call(S, c) == [S EXCEPT !.glCalls = Append(@, c)]

\* programs created by this manager and not yet deleted
LivePrograms == {p \in 1..programsCreated : deleteCount[p] = 0}

\* handleErrors as if it reported every diagnostic on its own
handleErrors_PerDiagnostic(S) ==
    IF Len(S.errors) > 0
    THEN [S EXCEPT !.errorCalls = @ + Len(S.errors), !.lastReport = S.errors]
    ELSE S

handleErrors(S) ==
    IF Len(S.errors) > 0
    THEN [S EXCEPT !.errorCalls = @ + 1, !.lastReport = S.errors]
    ELSE S

\* stringToProgram(str, type): ok says whether the compile succeeds; the
\* result (the shader, or false) is ok itself. n tags the diagnostic.
stringToProgram(S, type, ok, n) ==
    LET S1 == [S EXCEPT !.glCalls = @ \o <<Gl("createShader", 0, type, 0),
                                           Gl("shaderSource", 0, type, 0),
                                           Gl("compileShader", 0, type, 0),
                                           Gl("getShaderParameter", 0, type, 0)>>]
    IN  IF ok THEN S1
        ELSE [S1 EXCEPT !.glCalls = Append(@, Gl("getShaderInfoLog", 0, type, 0)),
                        !.errors = Append(@, [attempt |-> n, stage |-> type])]

StdUniformNames == <<"uPMatrix", "pSize", "fillColor", "isBubble", "bubbleSizeAbs",
                     "bubbleSizeByArea", "uSampler", "skipTranslation", "isCircle",
                     "isInverted">>

\* createShader(): [st |-> the state after, ret |-> the value returned]
createShader(S, vOk, fOk, lOk, n) ==
    LET S1 == stringToProgram(S, "vertex", vOk, n)
        S2 == stringToProgram(S1, "fragment", fOk, n)
    IN  IF ~vOk \/ ~fOk
        THEN [st |-> handleErrors([S2 EXCEPT !.shaderProgram = 0]), ret |-> FALSE]
        ELSE
          LET p == S2.programsCreated + 1
              S3 == [S2 EXCEPT !.programsCreated = p,
                               !.shaderProgram = p,
                               !.glCalls = @ \o <<Gl("createProgram", p, "", 0),
                                                  Gl("attachShader", p, "vertex", 0),
                                                  Gl("attachShader", p, "fragment", 0),
                                                  Gl("linkProgram", p, "", 0),
                                                  Gl("getProgramParameter", p, "", 0)>>]
          IN  IF ~lOk
              THEN
                LET S4 == [S3 EXCEPT !.glCalls = Append(@, Gl("getProgramInfoLog", p, "", 0)),
                                     !.errors = Append(@, [attempt |-> n, stage |-> "link"])]
                IN  [st |-> [handleErrors(S4) EXCEPT !.shaderProgram = 0], ret |-> FALSE]
              ELSE
                [st |-> [S3 EXCEPT !.glCalls = @ \o <<Gl("useProgram", p, "", 0),
                                                      Gl("bindAttribLocation", p, "", 0)>>
                                       \o [i \in 1..Len(StdUniformNames) |->
                                             Gl("getUniformLocation", p, StdUniformNames[i], 0)],
                                   !.stdUniforms = p],
                 ret |-> TRUE]

\* destroy as if it did not check that a program is present
destroy_Unguarded(S) ==
    IF gl
    THEN [Call(S, Gl("deleteProgram", S.shaderProgram, "", 0)) EXCEPT
              !.deleteCount = IF S.shaderProgram = 0 THEN @
                              ELSE [@ EXCEPT ![S.shaderProgram] = @ + 1],
              !.shaderProgram = 0]
    ELSE S

destroy(S) ==
    IF gl /\ S.shaderProgram # 0
    THEN [Call(S, Gl("deleteProgram", S.shaderProgram, "", 0)) EXCEPT
              !.deleteCount[S.shaderProgram] = @ + 1,
              !.shaderProgram = 0]
    ELSE S

\* bind as if it did not check that a program is present
bind_Unguarded(S) ==
    IF gl THEN Call(S, Gl("useProgram", S.shaderProgram, "", 0)) ELSE S

bind(S) ==
    IF gl /\ S.shaderProgram # 0
    THEN Call(S, Gl("useProgram", S.shaderProgram, "", 0))
    ELSE S

\* uniformVal after a write of val to uniform name
Written(S, name, val) ==
    IF name \in TrackedUniforms
    THEN [S EXCEPT !.uniformVal[name] = Some(val)]
    ELSE S

setUniform(S, name, val) ==
    IF gl /\ S.shaderProgram # 0
    THEN LET cached == S.uLocations[name] # 0
             u == IF cached THEN S.uLocations[name] ELSE S.shaderProgram
             S1 == IF cached THEN S
                   ELSE Call(S, Gl("getUniformLocation", S.shaderProgram, name, 0))
         IN  Written([Call(S1, Gl("uniform1f", u, name, val)) EXCEPT !.uLocations[name] = u],
                     name, val)
    ELSE S

\* a setter of one of the ten handles resolved by createShader
SetStd(S, fn, name, val) ==
    IF gl /\ S.shaderProgram # 0
    THEN Written(Call(S, Gl(fn, S.stdUniforms, name, val)), name, val)
    ELSE S

setTexture(S, texture) == SetStd(S, "uniform1i", "uSampler", texture)

setInverted(S, flag) == SetStd(S, "uniform1i", "isInverted", flag)

setDrawAsCircle(S, flag) == SetStd(S, "uniform1i", "isCircle", IF flag THEN 1 ELSE 0)

setSkipTranslation(S, flag) ==
    SetStd(S, "uniform1i", "skipTranslation", IF flag THEN 1 ELSE 0)

setColor(S, color) == SetStd(S, "uniform4f", "fillColor", color)

setPMatrix(S, m) == SetStd(S, "uniformMatrix4fv", "uPMatrix", m)

setPointSize(S, p) == SetStd(S, "uniform1f", "pSize", p)

\* reset as if it cleared the bubble flag only
reset_BubbleOnly(S) ==
    IF gl /\ S.shaderProgram # 0
    THEN SetStd(S, "uniform1i", "isBubble", 0)
    ELSE S

reset(S) ==
    IF gl /\ S.shaderProgram # 0
    THEN SetStd(SetStd(S, "uniform1i", "isBubble", 0), "uniform1i", "isCircle", 0)
    ELSE S

Min(a, b) == IF a < b THEN a ELSE b

Max(a, b) == IF a > b THEN a ELSE b

\* H.pick(a, b): the first argument that is defined
pick(a, b) == IF a # None THEN a[1] ELSE b

\* setBubbleUniforms as if it did not look at the series' type
setBubbleUniforms_AnyType(S, series, zCalcMin, zCalcMax) ==
    IF gl /\ S.shaderProgram # 0
    THEN
      LET zMin == pick(series.zMin,
                       Min(MAX_VALUE,
                           Max(zCalcMin,
                               IF series.displayNegative = FALSE
                               THEN series.zThreshold ELSE -MAX_VALUE)))
          zMax == pick(series.zMax, Max(-MAX_VALUE, zCalcMax))
          S1 == SetStd(S, "uniform1i", "isBubble", 1)
          S2 == SetStd(S1, "uniform1i", "isCircle", 1)
          S3 == SetStd(S2, "uniform1i", "bubbleSizeByArea",
                       IF series.sizeBy # "width" THEN 1 ELSE 0)
          S4 == SetStd(S3, "uniform1i", "bubbleSizeAbs",
                       IF series.sizeByAbsoluteValue THEN 1 ELSE 0)
          S5 == setUniform(S4, "bubbleZMin", zMin)
          S6 == setUniform(S5, "bubbleZMax", zMax)
          S7 == setUniform(S6, "bubbleZThreshold", series.zThreshold)
          S8 == setUniform(S7, "bubbleMinSize", series.minPxSize)
      IN  setUniform(S8, "bubbleMaxSize", series.maxPxSize)
    ELSE S

\* setBubbleUniforms(series, zCalcMin, zCalcMax); series is a record
\* [type, zMin, zMax, displayNegative, zThreshold, sizeBy, sizeByAbsoluteValue,
\*  minPxSize, maxPxSize]
setBubbleUniforms(S, series, zCalcMin, zCalcMax) ==
    IF gl /\ S.shaderProgram # 0 /\ series.type = "bubble"
    THEN
      LET zMin == pick(series.zMin,
                       Min(MAX_VALUE,
                           Max(zCalcMin,
                               IF series.displayNegative = FALSE
                               THEN series.zThreshold ELSE -MAX_VALUE)))
          zMax == pick(series.zMax, Max(-MAX_VALUE, zCalcMax))
          S1 == SetStd(S, "uniform1i", "isBubble", 1)
          S2 == SetStd(S1, "uniform1i", "isCircle", 1)
          S3 == SetStd(S2, "uniform1i", "bubbleSizeByArea",
                       IF series.sizeBy # "width" THEN 1 ELSE 0)
          S4 == SetStd(S3, "uniform1i", "bubbleSizeAbs",
                       IF series.sizeByAbsoluteValue THEN 1 ELSE 0)
          S5 == setUniform(S4, "bubbleZMin", zMin)
          S6 == setUniform(S5, "bubbleZMax", zMax)
          S7 == setUniform(S6, "bubbleZThreshold", series.zThreshold)
          S8 == setUniform(S7, "bubbleMinSize", series.minPxSize)
      IN  setUniform(S8, "bubbleMaxSize", series.maxPxSize)
    ELSE S

\* the series handed to setBubbleUniforms: bubble series under every
\* combination of the zMin and displayNegative options, and a line series
BubbleSeries ==
    {s \in [type : {"bubble", "line"}, zMin : {None, Some(1)}, zMax : {None},
            displayNegative : BOOLEAN, zThreshold : {1}, sizeBy : {"area"},
            sizeByAbsoluteValue : {FALSE}, minPxSize : {2}, maxPxSize : {8}] :
        s.type = "line" => (s.zMin = None /\ s.displayNegative)}

\* ---- the steps ---------------------------------------------------------

\* the closure and GPU variables take the values of record S
Becomes(S) ==
    /\ shaderProgram' = S.shaderProgram
    /\ uLocations' = S.uLocations
    /\ stdUniforms' = S.stdUniforms
    /\ errors' = S.errors
    /\ programsCreated' = S.programsCreated
    /\ deleteCount' = S.deleteCount
    /\ errorCalls' = S.errorCalls
    /\ lastReport' = S.lastReport
    /\ uniformVal' = S.uniformVal
    /\ lastGl' = S.glCalls

NoAttempt == [vOk |-> TRUE, fOk |-> TRUE, lOk |-> TRUE]

\* GLShader(gl): with a context it runs createShader() and returns false if
\* that fails; without one it returns the handle with nothing created.
ShaderInit ==
    /\ gl \in BOOLEAN
    /\ threw = FALSE
    /\ IF gl
       THEN \E vOk, fOk, lOk \in BOOLEAN :
              LET r == createShader(Blank, vOk, fOk, lOk, 1)
              IN  /\ shaderProgram = r.st.shaderProgram
                  /\ uLocations = r.st.uLocations
                  /\ stdUniforms = r.st.stdUniforms
                  /\ errors = r.st.errors
                  /\ programsCreated = r.st.programsCreated
                  /\ deleteCount = r.st.deleteCount
                  /\ errorCalls = r.st.errorCalls
                  /\ lastReport = r.st.lastReport
                  /\ uniformVal = r.st.uniformVal
                  /\ lastGl = r.st.glCalls
                  /\ handle = r.ret
                  /\ lastRet = r.ret
                  /\ attemptNo = 1
                  /\ attempt = [vOk |-> vOk, fOk |-> fOk, lOk |-> (vOk /\ fOk) => lOk]
                  /\ phase = IF r.ret THEN "live" ELSE "failed"
                  /\ lastOp = "create"
       ELSE /\ shaderProgram = Blank.shaderProgram
            /\ uLocations = Blank.uLocations
            /\ stdUniforms = Blank.stdUniforms
            /\ errors = Blank.errors
            /\ programsCreated = Blank.programsCreated
            /\ deleteCount = Blank.deleteCount
            /\ errorCalls = Blank.errorCalls
            /\ lastReport = Blank.lastReport
            /\ uniformVal = Blank.uniformVal
            /\ lastGl = <<>>
            /\ handle = TRUE
            /\ lastRet = TRUE
            /\ attemptNo = 0
            /\ attempt = NoAttempt
            /\ phase = "none"
            /\ lastOp = "GLShader"

\* a step of an operation other than create() that returns nothing
Step(op, S) ==
    /\ handle
    /\ Becomes(S)
    /\ lastOp' = op
    /\ lastRet' = TRUE
    /\ threw' = FALSE
    /\ UNCHANGED <<gl, handle, attemptNo, attempt, trVars, fnVars, rcVars>>

\* create(): without a context, stringToProgram reads gl.VERTEX_SHADER of an
\* absent gl and raises a TypeError before anything else happens.
Create ==
    /\ handle
    /\ attemptNo < MaxCreates
    /\ lastOp' = "create"
    /\ attemptNo' = attemptNo + 1
    /\ UNCHANGED <<gl, handle, trVars, fnVars, rcVars>>
    /\ IF gl
       THEN \E vOk, fOk, lOk \in BOOLEAN :
              LET r == createShader(Cur, vOk, fOk, lOk, attemptNo + 1)
              IN  /\ Becomes(r.st)
                  /\ lastRet' = r.ret
                  /\ threw' = FALSE
                  /\ attempt' = [vOk |-> vOk, fOk |-> fOk, lOk |-> (vOk /\ fOk) => lOk]
                  /\ phase' = IF r.ret THEN "live" ELSE "failed"
       ELSE /\ Becomes(Cur)
            /\ lastRet' = FALSE
            /\ threw' = TRUE
            /\ UNCHANGED <<attempt, phase>>

Destroy ==
    /\ Step("destroy", destroy(Cur))
    /\ phase' = IF gl /\ shaderProgram # 0 THEN "destroyed" ELSE phase

Bind == Step("bind", bind(Cur)) /\ UNCHANGED phase

SetUniform ==
    \E name \in AxisUniforms :
        Step("setUniform", setUniform(Cur, name, 1)) /\ UNCHANGED phase

SetTexture == Step("setTexture", setTexture(Cur, 0)) /\ UNCHANGED phase

SetInverted == Step("setInverted", setInverted(Cur, 1)) /\ UNCHANGED phase

SetDrawAsCircle ==
    \E flag \in BOOLEAN :
        Step("setDrawAsCircle", setDrawAsCircle(Cur, flag)) /\ UNCHANGED phase

SetSkipTranslation ==
    Step("setSkipTranslation", setSkipTranslation(Cur, TRUE)) /\ UNCHANGED phase

SetColor == Step("setColor", setColor(Cur, 255)) /\ UNCHANGED phase

SetPMatrix == Step("setPMatrix", setPMatrix(Cur, 1)) /\ UNCHANGED phase

SetPointSize == Step("setPointSize", setPointSize(Cur, 1)) /\ UNCHANGED phase

Reset == Step("reset", reset(Cur)) /\ UNCHANGED phase

\* the zCalcMin values setBubbleUniforms is called with for a series
ZCalcMins(series) == IF series.type = "bubble" THEN {0, 2} ELSE {0}

\* setBubbleUniforms(series, zCalcMin, 3)
SetBubbleUniformsOf(series, zCalcMin) ==
    Step("setBubbleUniforms", setBubbleUniforms(Cur, series, zCalcMin, 3))
    /\ UNCHANGED phase

SetBubbleUniforms ==
    \E series \in BubbleSeries :
      \E zCalcMin \in ZCalcMins(series) : SetBubbleUniformsOf(series, zCalcMin)

ShaderNext ==
    \/ Create
    \/ Destroy
    \/ Bind
    \/ SetUniform
    \/ SetTexture
    \/ SetInverted
    \/ SetDrawAsCircle
    \/ SetSkipTranslation
    \/ SetColor
    \/ SetPMatrix
    \/ SetPointSize
    \/ Reset
    \/ SetBubbleUniforms

\* the manager when another part of the model is being exercised: no
\* context, nothing created, no step taken
ShaderIdle ==
    /\ gl = FALSE
    /\ handle = FALSE
    /\ shaderProgram = Blank.shaderProgram
    /\ uLocations = Blank.uLocations
    /\ stdUniforms = Blank.stdUniforms
    /\ errors = Blank.errors
    /\ programsCreated = Blank.programsCreated
    /\ deleteCount = Blank.deleteCount
    /\ errorCalls = Blank.errorCalls
    /\ lastReport = Blank.lastReport
    /\ uniformVal = Blank.uniformVal
    /\ lastGl = <<>>
    /\ lastRet = TRUE
    /\ threw = FALSE
    /\ attemptNo = 0
    /\ attempt = NoAttempt
    /\ phase = "none"
    /\ lastOp = "GLShader"

\* ========================================================================
\* PART 2 - translate(): the axis translation of the vertex shader
\* ========================================================================

\* largest value translated on a linear axis
MaxVal == 3

\* the values translated on a logarithmic axis
LogVals == {1, 10, 100}

\* log(val) / LN10 on the powers of ten, where it is exact
Log10(val) == CHOOSE e \in 0..2 : (IF e = 0 THEN 1 ELSE IF e = 1 THEN 10 ELSE 100) = val

\* translate as if a reversed axis only flipped the sign
translate_NoReversedOffset(val, pointPlacement, localA, localMin, minPixelPadding, pointRange, len, cvsCoord, isLog, reversed) ==
    LET sign1 == IF cvsCoord THEN -1 ELSE 1
        cvsOffset == IF cvsCoord THEN len ELSE 0
        v == IF isLog THEN Log10(val) ELSE val
        sign2 == IF reversed THEN -sign1 ELSE sign1
    IN  sign2 * (v - localMin) * localA + cvsOffset + (sign2 * minPixelPadding)

translate(val, pointPlacement, localA, localMin, minPixelPadding, pointRange, len, cvsCoord, isLog, reversed) ==
    LET sign1 == IF cvsCoord THEN -1 ELSE 1
        cvsOffset1 == IF cvsCoord THEN len ELSE 0
        v == IF isLog THEN Log10(val) ELSE val
        sign2 == IF reversed THEN -sign1 ELSE sign1
        cvsOffset2 == IF reversed THEN cvsOffset1 - sign2 * len ELSE cvsOffset1
    IN  sign2 * (v - localMin) * localA + cvsOffset2 + (sign2 * minPixelPadding)

TranslateArgs ==
    [val : 0..MaxVal \cup LogVals, localA : {1, 2}, localMin : {0, 1},
     minPixelPadding : {0, 1}, len : {4, 5},
     cvsCoord : BOOLEAN, isLog : BOOLEAN, reversed : BOOLEAN]

TranslateInit ==
    /\ tPc = "in"
    /\ tIn \in {a \in TranslateArgs : a.isLog => a.val \in LogVals}
    /\ tOut = 0

TranslateIdle ==
    /\ tPc = "idle"
    /\ tIn = [val |-> 0, localA |-> 1, localMin |-> 0, minPixelPadding |-> 0, len |-> 4,
              cvsCoord |-> FALSE, isLog |-> FALSE, reversed |-> FALSE]
    /\ tOut = 0

\* the vertex shader calls translate with its axis uniforms
Translate ==
    /\ tPc = "in"
    /\ tOut' = translate(tIn.val, 0, tIn.localA, tIn.localMin, tIn.minPixelPadding,
                         0, tIn.len, tIn.cvsCoord, tIn.isLog, tIn.reversed)
    /\ tPc' = "done"
    /\ UNCHANGED <<tIn, shVars, fnVars, rcVars>>

\* ========================================================================
\* PART 2b - bubbleRadius() of the vertex shader
\* The uniforms and the vertex's w are whole numbers; a position in the z
\* range is kept as a fraction.
\* ========================================================================

\* ceil(n / d) for d > 0
CeilDiv(n, d) == -((-n) \div d)

IsSquare(n) == \E r \in 0..n : r * r = n

\* sqrt(n) on the squares, where it is exact
Sqrt(n) == CHOOSE r \in 0..n : r * r = n

\* pos in bubbleRadius for vertex value w under uniforms u, before the
\* square root: zRange > 0.0 ? (value - zMin) / zRange : 0.5
BubblePos(w, u) ==
    LET zRange == u.bubbleZMax - u.bubbleZMin
        value == IF u.bubbleSizeAbs THEN w - u.bubbleZThreshold ELSE w
        zMin == IF u.bubbleSizeAbs THEN 0 ELSE u.bubbleZMin
    IN  IF zRange > 0 THEN [num |-> value - zMin, den |-> zRange]
        ELSE [num |-> 1, den |-> 2]

\* bubbleRadius(): the point size for vertex value w (aVertexPosition.w)
bubbleRadius(w, u) ==
    LET value == IF u.bubbleSizeAbs THEN w - u.bubbleZThreshold ELSE w
        zMin == IF u.bubbleSizeAbs THEN 0 ELSE u.bubbleZMin
        pos0 == BubblePos(w, u)
        rooted == IF u.bubbleSizeByArea /\ pos0.num > 0
                  THEN [num |-> Sqrt(pos0.num), den |-> Sqrt(pos0.den)]
                  ELSE pos0
    IN  IF value < zMin
        THEN u.bubbleZMin - 2
        ELSE u.bubbleMinSize
             + CeilDiv(rooted.num * (u.bubbleMaxSize - u.bubbleMinSize), rooted.den)

\* the bubble uniforms; with sizing by area, those for which the square
\* root is exact
BubbleArgs ==
    {a \in [w : 0..MaxVal,
            u : [bubbleZMin : {0, 1}, bubbleZMax : {2, 3, 5}, bubbleZThreshold : {0, 1},
                 bubbleMinSize : {2, 3}, bubbleMaxSize : {8},
                 bubbleSizeAbs : BOOLEAN, bubbleSizeByArea : BOOLEAN]] :
        (a.u.bubbleSizeByArea /\ BubblePos(a.w, a.u).num > 0) =>
            (IsSquare(BubblePos(a.w, a.u).num) /\ IsSquare(BubblePos(a.w, a.u).den))}

BubbleInit ==
    /\ bPc = "in"
    /\ bIn \in BubbleArgs
    /\ bOut = 0

BubbleIdle ==
    /\ bPc = "idle"
    /\ bIn = [w |-> 0,
              u |-> [bubbleZMin |-> 0, bubbleZMax |-> 2, bubbleZThreshold |-> 0,
                     bubbleMinSize |-> 2, bubbleMaxSize |-> 8,
                     bubbleSizeAbs |-> FALSE, bubbleSizeByArea |-> FALSE]]
    /\ bOut = 0

\* the vertex shader calls bubbleRadius for a vertex
BubbleRadius ==
    /\ bPc = "in"
    /\ bOut' = bubbleRadius(bIn.w, bIn.u)
    /\ bPc' = "done"
    /\ UNCHANGED <<bIn, hlVars, gpVars, wrVars, shVars, trVars, rcVars>>

\* ========================================================================
\* PART 2c - Chart.hideOverlappingLabels(labels)
\* A label object is known by its id; the array may hold one object twice
\* (a polar chart with connectEnds). box is what getAbsoluteBox returns for
\* the label: None when it has alignAttr and is not placed.
\* ========================================================================

\* labels handed to one call
MaxLabels == 3

\* a stricter test: boxes that only touch do not intersect
isIntersectRect_Strict(box1, box2) ==
    ~(\/ box2.x >= box1.x + box1.width
      \/ box2.x + box2.width <= box1.x
      \/ box2.y >= box1.y + box1.height
      \/ box2.y + box2.height <= box1.y)

\* isIntersectRect(box1, box2)
isIntersectRect(box1, box2) ==
    ~(\/ box2.x > box1.x + box1.width
      \/ box2.x + box2.width < box1.x
      \/ box2.y > box1.y + box1.height
      \/ box2.y + box2.height < box1.y)

\* a.labelrank || 0
RankOrZero(r) == IF r = None THEN 0 ELSE r[1]

\* a.labelrank < b.labelrank: false when either is undefined
RankLess(a, b) == a # None /\ b # None /\ a[1] < b[1]

\* the first loop: newOpacity = 1 and absoluteBox = getAbsoluteBox(label) on
\* every label of the array
markLabels(arr, obj) ==
    [id \in DOMAIN obj |->
        IF \E k \in 1..Len(arr) : arr[k] = id
        THEN [obj[id] EXCEPT !.newOpacity = Some(1), !.absoluteBox = obj[id].box]
        ELSE obj[id]]

\* the orders labels.sort(...) may leave the array in: the array's entries,
\* labelrank || 0 not increasing
SortedLabels(arr, obj) ==
    {[k \in 1..Len(arr) |-> arr[f[k]]] :
        f \in {g \in [1..Len(arr) -> 1..Len(arr)] :
                  \A a, b \in 1..Len(arr) : a # b => g[a] # g[b]}}
    \cap {q \in [1..Len(arr) -> DOMAIN obj] :
            \A k \in 1..(Len(arr) - 1) :
                RankOrZero(obj[q[k]].labelrank) >= RankOrZero(obj[q[k + 1]].labelrank)}

\* the body of the inner loop for labels[i] and labels[j]
detectPair(arr, obj, i, j) ==
    LET label1 == arr[i]
        label2 == arr[j]
        box1 == obj[label1].absoluteBox
        box2 == obj[label2].absoluteBox
    IN  IF /\ box1 # None
           /\ box2 # None
           /\ label1 # label2
           /\ obj[label1].newOpacity # Some(0)
           /\ obj[label2].newOpacity # Some(0)
           /\ isIntersectRect(box1[1], box2[1])
        THEN LET hidden == IF RankLess(obj[label1].labelrank, obj[label2].labelrank)
                           THEN label1 ELSE label2
             IN  [obj EXCEPT ![hidden].newOpacity = Some(0)]
        ELSE obj

RECURSIVE detectFrom(_, _, _, _)
\* the two nested loops, from the pair (i, j) on
detectFrom(arr, obj, i, j) ==
    IF i > Len(arr) THEN obj
    ELSE IF j > Len(arr) THEN detectFrom(arr, obj, i + 1, i + 2)
    ELSE detectFrom(arr, detectPair(arr, obj, i, j), i, j + 1)

\* hideOverlappingLabels(labels), the sort having left the array as sorted
hideOverlappingLabels(arr, obj, sorted) ==
    [labels |-> sorted, labelObj |-> detectFrom(sorted, markLabels(arr, obj), 1, 2)]

\* the boxes of the labels: unit squares on a small grid, so that boxes
\* overlap, touch at an edge or a corner, or lie apart
LabelBoxes ==
    {None} \cup {Some([x |-> x, y |-> y, width |-> 1, height |-> 1]) :
                    x \in 0..2, y \in {0, 2}}

LabelObjects ==
    [labelrank : {None, Some(1), Some(2)}, box : LabelBoxes,
     absoluteBox : {None}, newOpacity : {None}]

\* the label objects 1..n, and the array that holds them, the first one
\* possibly twice
LabelsInit ==
    /\ hPc = "in"
    /\ \E n \in 1..MaxLabels :
         /\ labelObj \in [1..n -> LabelObjects]
         /\ labels \in {[k \in 1..n |-> k]} \cup
                        {[k \in 1..(n + 1) |-> IF k = n + 1 THEN 1 ELSE k] :
                            m \in {n} \cap 1..(MaxLabels - 1)}

LabelsIdle ==
    /\ hPc = "idle"
    /\ labels = <<>>
    /\ labelObj = <<>>

\* the chart's render handler calls hideOverlappingLabels(labels)
HideOverlappingLabels ==
    /\ hPc = "in"
    /\ \E sorted \in SortedLabels(labels, labelObj) :
         LET r == hideOverlappingLabels(labels, labelObj, sorted)
         IN  /\ labels' = r.labels
             /\ labelObj' = r.labelObj
    /\ hPc' = "done"
    /\ UNCHANGED <<brVars, gpVars, wrVars, shVars, trVars, rcVars>>

\* ========================================================================
\* PART 2d - the polar wrapper of Series.getGraphPath(points)
\* A point is [id, isNull, polarPlotY]: polarPlotY is TRUE once toXY has
\* translated the point. The wrapped method reads the array and returns.
\* ========================================================================

\* calls of getGraphPath on one points array
MaxGraphCalls == 2

\* the ids of the points of an array, in order
PointIds(pts) == [k \in 1..Len(pts) |-> pts[k].id]

\* the index of the first point that is not null, 0 when there is none
FirstValid(pts) ==
    IF \E k \in 1..Len(pts) : ~pts[k].isNull
    THEN CHOOSE k \in 1..Len(pts) :
            ~pts[k].isNull /\ \A m \in 1..(k - 1) : pts[m].isNull
    ELSE 0

\* points.forEach: series.toXY(point) on the points without polarPlotY
translatePoints(pts) == [k \in 1..Len(pts) |-> [pts[k] EXCEPT !.polarPlotY = TRUE]]

\* the wrapper without its points.pop()
getGraphPath_NoPop(pts, isPolar, connect) ==
    IF isPolar
    THEN LET popLastPoint == connect /\ FirstValid(pts) # 0
             spliced == IF popLastPoint THEN Append(pts, pts[FirstValid(pts)]) ELSE pts
             seen == translatePoints(spliced)
         IN  [points |-> seen, proceed |-> PointIds(seen)]
    ELSE [points |-> pts, proceed |-> PointIds(pts)]

\* the wrapper: points is the array when it returns, proceed the ids of the
\* array the wrapped method was applied to
getGraphPath(pts, isPolar, connect) ==
    IF isPolar
    THEN LET popLastPoint == connect /\ FirstValid(pts) # 0
             spliced == IF popLastPoint THEN Append(pts, pts[FirstValid(pts)]) ELSE pts
             seen == translatePoints(spliced)
         IN  [points |-> IF popLastPoint THEN SubSeq(seen, 1, Len(seen) - 1) ELSE seen,
              proceed |-> PointIds(seen)]
    ELSE [points |-> pts, proceed |-> PointIds(pts)]

GraphPathInit ==
    /\ gCalls = 0
    /\ \E n \in 0..MaxLen :
         gPoints \in {pts \in [1..n -> [id : 1..n, isNull : BOOLEAN, polarPlotY : BOOLEAN]] :
                        \A k \in 1..n : pts[k].id = k}
    /\ gGiven = PointIds(gPoints)
    /\ gProceed = <<>>
    /\ polar \in BOOLEAN
    /\ connectEnds \in BOOLEAN

GraphPathIdle ==
    /\ gCalls = MaxGraphCalls
    /\ gPoints = <<>>
    /\ gGiven = <<>>
    /\ gProceed = <<>>
    /\ polar = FALSE
    /\ connectEnds = FALSE

\* the series calls getGraphPath(points) on its points array
GetGraphPath ==
    /\ gCalls < MaxGraphCalls
    /\ LET r == getGraphPath(gPoints, polar, connectEnds)
       IN  /\ gPoints' = r.points
           /\ gProceed' = r.proceed
    /\ gCalls' = gCalls + 1
    /\ UNCHANGED <<gGiven, polar, connectEnds, brVars, hlVars, wrVars, shVars, trVars, rcVars>>

\* ========================================================================
\* PART 2e - Williams %R: getValues(series, params)
\* A y value is the array [open, high, low, close], here a sequence whose
\* elements 2, 3 and 4 are high, low and close. R is kept as the fraction
\* [num, den]; den is 0 where the code divides by zero.
\* ========================================================================

\* the least and the greatest member of a non-empty set of numbers
MinOf(S) == CHOOSE m \in S : \A v \in S : m <= v

MaxOf(S) == CHOOSE m \in S : \A v \in S : m >= v

\* getArrayExtremes(arr, minIndex, maxIndex): [the least arr[k][minIndex],
\* the greatest arr[k][maxIndex]], the indices counted from 0
getArrayExtremes(arr, minIndex, maxIndex) ==
    <<MinOf({arr[k][minIndex + 1] : k \in 1..Len(arr)}),
      MaxOf({arr[k][maxIndex + 1] : k \in 1..Len(arr)})>>

\* the body of the loop for index i (from 0): R for the window ending at i
williamsR(yVal, period, i) ==
    LET slicedY == SubSeq(yVal, i - period + 2, i + 1)
        extremes == getArrayExtremes(slicedY, 2, 1)
        LL == extremes[1]
        HH == extremes[2]
        CC == yVal[i + 1][4]
    IN  [num |-> (HH - CC) * (-100), den |-> HH - LL]

\* getValues returning false (and wOut before getValues has returned)
ReturnedFalse == [ok |-> FALSE, values |-> <<>>, xData |-> <<>>, yData |-> <<>>]

RECURSIVE williamsLoop(_, _, _, _, _)
\* the loop from index i on: an entry is pushed when xVal[i] is truthy
williamsLoop(xVal, yVal, period, i, acc) ==
    IF i >= Len(yVal) THEN acc
    ELSE LET R == williamsR(yVal, period, i)
             x == xVal[i + 1]
         IN  williamsLoop(xVal, yVal, period, i + 1,
                 IF x # 0
                 THEN [ok |-> TRUE,
                       values |-> Append(acc.values, <<x, R>>),
                       xData |-> Append(acc.xData, x),
                       yData |-> Append(acc.yData, R)]
                 ELSE acc)

\* getValues(series, params) for series.xData, series.yData, params.period
getValues(xVal, yVal, period) ==
    IF Len(xVal) < period \/ Len(yVal) = 0 \/ Len(yVal[1]) # 4
    THEN ReturnedFalse
    ELSE williamsLoop(xVal, yVal, period, period - 1,
                      [ok |-> TRUE, values |-> <<>>, xData |-> <<>>, yData |-> <<>>])

\* [open, high, low, close] with low <= close <= high
OHLC == {<<1, h, l, c>> : h \in {2, 3}, l \in {1, 2}, c \in 1..3} \cap
        {r \in Seq(1..3) : Len(r) = 4 /\ r[3] <= r[4] /\ r[4] <= r[2]}

\* the linked series: x values that increase by one from 0 or from 1, and
\* OHLC rows or, for a series that is not OHLC, [low, high] rows
WilliamsInit ==
    /\ wPc = "in"
    /\ \E n \in 0..MaxLen, x0 \in {0, 1}, period \in 1..2 :
         \E yVal \in [1..n -> OHLC] \cup [1..n -> {<<1, 2>>}] :
            wIn = [xData |-> [k \in 1..n |-> x0 + k - 1], yData |-> yVal, period |-> period]
    /\ wOut = ReturnedFalse

WilliamsIdle ==
    /\ wPc = "idle"
    /\ wIn = [xData |-> <<>>, yData |-> <<>>, period |-> 1]
    /\ wOut = ReturnedFalse

\* the indicator computes its values from the linked series
GetValues ==
    /\ wPc = "in"
    /\ wOut' = getValues(wIn.xData, wIn.yData, wIn.period)
    /\ wPc' = "done"
    /\ UNCHANGED <<wIn, brVars, hlVars, gpVars, shVars, trVars, rcVars>>

\* the functions modelled on their own, when another part is exercised
FnIdle == BubbleIdle /\ LabelsIdle /\ GraphPathIdle /\ WilliamsIdle

\* ========================================================================
\* PART 3 - Series.renderCanvas: the point batch processor
\* The series is neither a range series (isRange) nor stacked (isStacked),
\* and it is not cropped (cropStart = 0).
\* ========================================================================

\* points one eachAsync chunk processes before it yields
ChunkSize == 2

\* Pixel positions are kept in units of 1/SubPix of a pixel, so that the
\* unrounded positions the axes return are integers.
SubPix == 3

\* the x axis: extremes, and the parameters of its pixel translation
\* (trans in sub-pixel units per data unit, len in pixels)
XAxis == [min |-> 1, max |-> 4, trans |-> 1, minPad |-> 0, len |-> 2]

\* the y axis, likewise; its pixels grow downwards (cvsCoord)
YAxis == [min |-> 0, max |-> 1, trans |-> 2, minPad |-> 0, len |-> 3]

\* Math.ceil of a pixel position: the next whole pixel, in sub-pixel units
Ceil(v) == -(((-v) \div SubPix) * SubPix)

\* xAxis.toPixels(x, true), the axis translation of x
xAxisToPixels(x) ==
    translate(x, 0, XAxis.trans, XAxis.min, XAxis.minPad, 0, XAxis.len * SubPix,
              FALSE, FALSE, FALSE)

\* yAxis.toPixels(y, true)
yAxisToPixels(y) ==
    translate(y, 0, YAxis.trans, YAxis.min, YAxis.minPad, 0, YAxis.len * SubPix,
              TRUE, FALSE, FALSE)

\* the closure of the running pass
CurC == [points |-> points, pointTaken |-> pointTaken, lastClientX |-> lastClientX,
         minI |-> minI, maxI |-> maxI, minVal |-> minVal, maxVal |-> maxVal,
         axisReads |-> axisReads]

\* a closure that starts with the dedup keys of the pass before it
NewC_KeepsPointTaken ==
    [points |-> <<>>, pointTaken |-> pointTaken, lastClientX |-> None,
     minI |-> None, maxI |-> None, minVal |-> None, maxVal |-> None,
     axisReads |-> 0]

\* the closure renderCanvas starts a pass with
NewC == [points |-> <<>>, pointTaken |-> {}, lastClientX |-> None,
         minI |-> None, maxI |-> None, minVal |-> None, maxVal |-> None,
         axisReads |-> 0]


\* addKDPoint as if it registered every point it is given
addKDPoint_NoDedup(C, clientX, plotY, i) ==
    LET cx == Ceil(clientX)
        index == IF compareX THEN <<cx>> ELSE <<cx, plotY>>
    IN  IF enableMouseTracking
        THEN [C EXCEPT
                !.pointTaken = @ \cup {index},
                !.points = Append(@,
                    [x |-> data[i + 1].x,
                     clientX |-> IF inverted THEN XAxis.len * SubPix - cx ELSE cx,
                     plotX |-> IF inverted THEN XAxis.len * SubPix - cx ELSE cx,
                     plotY |-> IF inverted THEN YAxis.len * SubPix - plotY ELSE plotY,
                     i |-> i])]
        ELSE C

\* addKDPoint(clientX, plotY, i); i counts from 0 as in the source
addKDPoint(C, clientX, plotY, i) ==
    LET cx == Ceil(clientX)
        index == IF compareX THEN <<cx>> ELSE <<cx, plotY>>
    IN  IF enableMouseTracking /\ index \notin C.pointTaken
        THEN [C EXCEPT
                !.pointTaken = @ \cup {index},
                !.points = Append(@,
                    [x |-> data[i + 1].x,
                     clientX |-> IF inverted THEN XAxis.len * SubPix - cx ELSE cx,
                     plotX |-> IF inverted THEN XAxis.len * SubPix - cx ELSE cx,
                     plotY |-> IF inverted THEN YAxis.len * SubPix - plotY ELSE plotY,
                     i |-> i])]
        ELSE C

\* the sampling branch of processPoint for a point that passed the filter
SamplePoint(C, clientX, y, i) ==
    LET acc == C.minI = None \/ Some(clientX) = C.lastClientX
        low == y
        C1 == IF acc /\ (C.maxI = None \/ y > C.maxVal[1])
              THEN [C EXCEPT !.maxVal = Some(y), !.maxI = Some(i)]
              ELSE C
        C2 == IF acc /\ (C.minI = None \/ low < C.minVal[1])
              THEN [C1 EXCEPT !.minVal = Some(low), !.minI = Some(i)]
              ELSE C1
    IN  IF Some(clientX) # C2.lastClientX
        THEN
          LET C3 == IF C2.minI # None
                    THEN LET plotY == yAxisToPixels(C2.maxVal[1])
                             yBottom == yAxisToPixels(C2.minVal[1])
                             C2r == [C2 EXCEPT !.axisReads = @ + 2]
                             C2a == addKDPoint(C2r, clientX, plotY, C2.maxI[1])
                         IN  IF yBottom # plotY
                             THEN addKDPoint(C2a, clientX, yBottom, C2.minI[1])
                             ELSE C2a
                    ELSE C2
          IN  [C3 EXCEPT !.minI = None, !.maxI = None, !.lastClientX = Some(clientX)]
        ELSE C2

\* the per-point filter as if it had no upper x bound
PassesFilter_NoXMax(d) ==
    /\ d.y # None
    /\ d.x >= XAxis.min
    /\ requireSorting \/ (d.y[1] >= YAxis.min /\ d.y[1] <= YAxis.max)

\* the per-point filter of processPoint: not null, x inside the x extremes,
\* and y inside the y extremes unless the series requires sorting
PassesFilter(d) ==
    /\ d.y # None
    /\ d.x >= XAxis.min /\ d.x <= XAxis.max
    /\ requireSorting \/ (d.y[1] >= YAxis.min /\ d.y[1] <= YAxis.max)

\* the part of processPoint that runs when the chart is not destroyed
ProcessLive(C, d, i) ==
    IF PassesFilter(d)
    THEN LET clientX == xAxisToPixels(d.x)
             C0 == [C EXCEPT !.axisReads = @ + 1]
         IN  IF sampling
             THEN SamplePoint(C0, clientX, d.y[1], i)
             ELSE addKDPoint([C0 EXCEPT !.axisReads = @ + 1], clientX,
                             Ceil(yAxisToPixels(d.y[1])), i)
    ELSE C

\* processPoint as if it did not look at chart.index
processPoint_NoLivenessCheck(C, d, i) ==
    [st |-> ProcessLive(C, d, i), ret |-> chartAlive]

\* processPoint(d, i): [st |-> the closure after, ret |-> the value returned]
processPoint(C, d, i) ==
    IF ~chartAlive
    THEN [st |-> C, ret |-> FALSE]
    ELSE [st |-> ProcessLive(C, d, i), ret |-> TRUE]

\* One chunk of eachAsync(arr, fn): fn(arr[i], i) for i from the position
\* reached up to the chunk's threshold, in order, stopping when fn returns
\* false: [st, i, proceed]
RECURSIVE EachAsyncChunk(_, _, _)
EachAsyncChunk(C, i, threshold) ==
    IF i < threshold /\ i < Len(data)
    THEN LET r == processPoint(C, data[i + 1], i)
         IN  IF r.ret THEN EachAsyncChunk(r.st, i + 1, threshold)
             ELSE [st |-> r.st, i |-> i + 1, proceed |-> FALSE]
    ELSE [st |-> C, i |-> i, proceed |-> TRUE]

\* createAndAttachRenderer(chart, series): the render target of the chart
\* (chart boosting) or of the series exists afterwards
createAndAttachRenderer ==
    [renderTarget |-> IF chartBoosting THEN renderTarget ELSE TRUE,
     chartRenderTarget |-> IF chartBoosting THEN TRUE ELSE chartRenderTarget]

BecomesC(C) ==
    /\ points' = C.points
    /\ pointTaken' = C.pointTaken
    /\ lastClientX' = C.lastClientX
    /\ minI' = C.minI
    /\ maxI' = C.maxI
    /\ minVal' = C.minVal
    /\ maxVal' = C.maxVal
    /\ axisReads' = C.axisReads

\* earlier passes of the series that can be streaming at once
MaxPending == 1

\* the series' spatial index, and what its listeners have been told
CurK == [buildKDTree |-> buildKDTree, kdBuilt |-> kdBuilt, rendered |-> rendered,
         notifyView |-> notifyView]

BecomesK(K) ==
    /\ buildKDTree' = K.buildKDTree
    /\ kdBuilt' = K.kdBuilt
    /\ rendered' = K.rendered
    /\ notifyView' = K.notifyView

\* fireEvent(series, 'renderedCanvas'): the listeners run, and find the
\* index as it is at that moment
fireRenderedCanvas(K) ==
    [K EXCEPT !.rendered = TRUE,
              !.notifyView = Some([buildKDTree |-> K.buildKDTree, kdBuilt |-> K.kdBuilt])]

\* doneProcessing(): fire 'renderedCanvas', go back to the prototype's
\* buildKDTree, call it
doneProcessing(K) ==
    LET K1 == fireRenderedCanvas(K)
        K2 == [K1 EXCEPT !.buildKDTree = "proto"]
    IN  [K2 EXCEPT !.kdBuilt = TRUE]

\* the reduced point list L of a pass that completed is kept if it is one of
\* the first two
Completed(L) == IF Len(doneLists) < 2 THEN Append(doneLists, L) ELSE doneLists

\* the marker group selection without the destroy of the private group
selectMarkerGroup_KeepsPrivate(group, boosting) ==
    IF ~boosting
    THEN [markerGroup |-> "private", destroyed |-> "none"]
    ELSE [markerGroup |-> "chart", destroyed |-> "none"]

\* renderCanvas' selection of series.markerGroup, the series holding group
\* when it starts. In series mode a held chart group is let go and plotGroup
\* returns the private group, making it if the series has none; in chart
\* mode a held private group is destroyed and the chart's group is taken.
selectMarkerGroup(group, boosting) ==
    IF ~boosting
    THEN LET held == IF group = "chart" THEN "none" ELSE group
         IN  [markerGroup |-> IF held = "none" THEN "private" ELSE held,
              destroyed |-> "none"]
    ELSE [markerGroup |-> "chart",
          destroyed |-> IF group # "none" /\ group # "chart" THEN group ELSE "none"]

\* series.renderCanvas(), up to its call of eachAsync. A pass that starts
\* while the stream of the pass before it has chunks to come leaves that
\* stream running on its own closure.
RenderCanvas ==
    /\ chartAlive
    /\ pc = "streaming" => Len(pending) < MaxPending
    /\ isBoosting' = TRUE
    /\ chartRenderTarget' = createAndAttachRenderer.chartRenderTarget
    /\ IF ~visible
       THEN /\ renderTarget' = createAndAttachRenderer.renderTarget
            /\ UNCHANGED <<markerGroup, groupDestroyed, rcIndex, pending, rcClosure, pos, pc>>
       ELSE /\ markerGroup' = selectMarkerGroup(markerGroup, chartBoosting).markerGroup
            /\ groupDestroyed' = selectMarkerGroup(markerGroup, chartBoosting).destroyed
            /\ renderTarget' = IF ~chartBoosting
                               THEN createAndAttachRenderer.renderTarget
                               ELSE FALSE
            /\ pending' = IF pc = "streaming"
                          THEN Append(pending, [C |-> CurC, pos |-> pos])
                          ELSE pending
            /\ BecomesC(NewC)
            /\ buildKDTree' = "noop"
            /\ kdBuilt' = FALSE
            /\ rendered' = FALSE
            /\ notifyView' = None
            /\ pos' = 0
            /\ pc' = IF forExport THEN "skipped" ELSE "streaming"
    /\ UNCHANGED <<rcConfig, chartAlive, didBoost, chartBuffer, preCalls, drewChart,
                   doneLists, shVars, trVars, fnVars>>

\* renderCanvas called when no stream of the series has chunks to come
RenderCanvasWhenIdle == pc # "streaming" /\ RenderCanvas

\* one chunk of the stream of the latest pass; the chunk that reaches the
\* end of the data calls doneProcessing
ProcessChunk ==
    /\ pc = "streaming"
    /\ LET r == EachAsyncChunk(CurC, pos, pos + ChunkSize)
       IN  /\ BecomesC(r.st)
           /\ pos' = r.i
           /\ IF ~r.proceed
              THEN /\ pc' = "halted"
                   /\ UNCHANGED <<rcIndex, doneLists>>
              ELSE IF r.i < Len(data)
              THEN UNCHANGED <<pc, rcIndex, doneLists>>
              ELSE /\ pc' = "done"
                   /\ BecomesK(doneProcessing(CurK))
                   /\ doneLists' = Completed(r.st.points)
    /\ UNCHANGED <<rcConfig, chartAlive, markerGroup, renderTarget, chartRenderTarget,
                   rcChart, rcEffects, pending, shVars, trVars, fnVars>>

\* pending without its k-th entry
Without(k) == SubSeq(pending, 1, k - 1) \o SubSeq(pending, k + 1, Len(pending))

\* one chunk of the stream of an earlier pass, which runs on the closure of
\* that pass; its doneProcessing acts on the series
ProcessEarlierChunk ==
    \E k \in 1..Len(pending) :
        /\ LET r == EachAsyncChunk(pending[k].C, pending[k].pos, pending[k].pos + ChunkSize)
           IN  IF ~r.proceed
               THEN /\ pending' = Without(k)
                    /\ UNCHANGED <<rcIndex, doneLists>>
               ELSE IF r.i < Len(data)
               THEN /\ pending' = [pending EXCEPT ![k] = [C |-> r.st, pos |-> r.i]]
                    /\ UNCHANGED <<rcIndex, doneLists>>
               ELSE /\ pending' = Without(k)
                    /\ BecomesK(doneProcessing(CurK))
                    /\ doneLists' = Completed(r.st.points)
        /\ UNCHANGED <<rcConfig, chartAlive, markerGroup, renderTarget, chartRenderTarget,
                       rcChart, rcEffects, rcClosure, pos, pc, shVars, trVars, fnVars>>

\* what preRender writes on the chart
CurP == [isBoosting |-> isBoosting, didBoost |-> didBoost, chartBuffer |-> chartBuffer,
         preCalls |-> preCalls]

BecomesP(P) ==
    /\ isBoosting' = P.isBoosting
    /\ didBoost' = P.didBoost
    /\ chartBuffer' = P.chartBuffer
    /\ preCalls' = P.preCalls

\* preRender as if it allocated the chart's buffer whenever the chart is in
\* chart-boosting mode, before it clears the canvas
preRender_AllocateUnguarded(P, boosting, hasCanvas) ==
    LET P0 == [P EXCEPT !.isBoosting = FALSE, !.chartBuffer = FALSE, !.preCalls = <<>>]
        P1 == IF ~boosting /\ P0.didBoost THEN [P0 EXCEPT !.didBoost = FALSE] ELSE P0
        P2 == IF boosting
              THEN [P1 EXCEPT !.didBoost = TRUE, !.chartBuffer = TRUE,
                              !.preCalls = Append(@, "allocateBuffer")]
              ELSE P1
        P3 == IF hasCanvas THEN [P2 EXCEPT !.preCalls = Append(@, "boostClear")] ELSE P2
    IN  IF hasCanvas THEN [P3 EXCEPT !.preCalls = Append(@, "translate")] ELSE P3

\* preRender(), the chart's 'predraw' handler. boosting is what
\* chart.isChartSeriesBoosting() answers once the force state is re-evaluated;
\* hasCanvas says that the chart has its canvas, its GPU renderer (ogl), its
\* boostClear and its marker group, which it gets together
preRender(P, boosting, hasCanvas) ==
    LET P0 == [P EXCEPT !.isBoosting = FALSE, !.chartBuffer = FALSE, !.preCalls = <<>>]
        P1 == IF ~boosting /\ P0.didBoost THEN [P0 EXCEPT !.didBoost = FALSE] ELSE P0
        P2 == IF hasCanvas THEN [P1 EXCEPT !.preCalls = Append(@, "boostClear")] ELSE P1
        P3 == IF hasCanvas /\ boosting
              THEN [P2 EXCEPT !.didBoost = TRUE, !.chartBuffer = TRUE,
                              !.preCalls = Append(@, "allocateBuffer")]
              ELSE P2
    IN  IF hasCanvas THEN [P3 EXCEPT !.preCalls = Append(@, "translate")] ELSE P3

\* a 'predraw' event of the chart: the strategy is re-evaluated, and may
\* come out either way
PreRender ==
    /\ chartAlive
    /\ \E boosting \in BOOLEAN :
        /\ chartBoosting' = boosting
        /\ BecomesP(preRender(CurP, boosting, chartRenderTarget))
    /\ UNCHANGED <<data, sampling, compareX, inverted, requireSorting,
                   enableMouseTracking, visible, forExport, chartAlive, markerGroup,
                   renderTarget, chartRenderTarget, rcIndex, rcEffects, doneLists, pending,
                   rcClosure, pos, pc, shVars, trVars, fnVars>>

\* chart.destroy(): chart.index becomes undefined
DestroyChart ==
    /\ chartAlive
    /\ chartAlive' = FALSE
    /\ UNCHANGED <<rcConfig, markerGroup, renderTarget, chartRenderTarget, rcIndex,
                   rcChart, rcEffects, doneLists, pending, rcClosure, pos, pc,
                   shVars, trVars, fnVars>>

\* canvasToSVG() as if it did not look at the boosting mode
canvasToSVG_AnyMode(hasOgl, boosting) == hasOgl

\* canvasToSVG(): TRUE iff it calls chart.ogl.render(chart)
canvasToSVG(hasOgl, boosting) == hasOgl /\ boosting

\* a 'render' event of the chart
CanvasToSVG ==
    /\ chartAlive
    /\ drewChart' = canvasToSVG(chartRenderTarget, chartBoosting)
    /\ UNCHANGED <<rcConfig, chartAlive, markerGroup, renderTarget, chartRenderTarget,
                   rcIndex, rcChart, groupDestroyed, doneLists, pending, rcClosure, pos, pc,
                   shVars, trVars, fnVars>>

\* ---- the series rendered ------------------------------------------------

\* the sequences over P of length at most n
SeqsUpTo(n, P) == UNION {[1..k -> P] : k \in 0..n}

YVals(S) == {None} \cup {Some(y) : y \in S}

\* x never decreases along d
Monotonic(d) == \A k \in 1..(Len(d) - 1) : d[k].x <= d[k + 1].x

\* any series, sampled or not, inverted or not, its x values in any order
AnySeries ==
    /\ data \in SeqsUpTo(MaxLen, [x : 1..3, y : YVals({0, 1})])
    /\ sampling \in BOOLEAN /\ compareX \in BOOLEAN /\ inverted \in BOOLEAN
    /\ requireSorting = TRUE /\ enableMouseTracking = TRUE /\ visible = TRUE
    /\ forExport = FALSE /\ chartBoosting = FALSE

\* a sampled series with sorted x values and up to three points a column
SampledSeries ==
    /\ data \in {d \in SeqsUpTo(MaxLen, [x : 0..4, y : YVals({0, 1, 2})]) : Monotonic(d)}
    /\ sampling = TRUE /\ compareX \in BOOLEAN /\ inverted = FALSE
    /\ requireSorting = TRUE /\ enableMouseTracking = TRUE /\ visible = TRUE
    /\ forExport = FALSE /\ chartBoosting = FALSE

\* a series of at most one point under every combination of the options
AnyOptions ==
    /\ data \in SeqsUpTo(1, [x : 0..5, y : YVals({0, 1, 2})])
    /\ sampling \in BOOLEAN /\ compareX \in BOOLEAN /\ inverted \in BOOLEAN
    /\ requireSorting \in BOOLEAN /\ enableMouseTracking \in BOOLEAN
    /\ visible \in BOOLEAN /\ forExport \in BOOLEAN /\ chartBoosting \in BOOLEAN

\* a sampled series of up to MaxLen + 1 points in two pixel columns
DenseColumns ==
    /\ data \in {d \in SeqsUpTo(MaxLen + 1, [x : {1, 2}, y : YVals({0, 1})]) :
                    Len(d) > MaxLen /\ Monotonic(d)}
    /\ sampling = TRUE /\ compareX = FALSE /\ inverted = FALSE
    /\ requireSorting = TRUE /\ enableMouseTracking = TRUE /\ visible = TRUE
    /\ forExport = FALSE /\ chartBoosting = FALSE

\* a series of one pixel column, of more points than a chunk holds, on a
\* chart in either strategy, visible or not, exporting or not
CycleSeries ==
    /\ data \in {d \in SeqsUpTo(MaxLen, [x : {1}, y : YVals({0, 1})]) : Len(d) > ChunkSize}
    /\ sampling = FALSE /\ compareX = FALSE /\ inverted = FALSE
    /\ requireSorting = TRUE /\ enableMouseTracking = TRUE
    /\ visible \in BOOLEAN /\ forExport \in BOOLEAN /\ chartBoosting \in BOOLEAN

\* before the first predraw of the chart and the first renderCanvas of the
\* series
RenderStart ==
    /\ chartAlive = TRUE
    /\ isBoosting = FALSE
    /\ markerGroup = "none"
    /\ renderTarget = FALSE
    /\ chartRenderTarget = FALSE
    /\ buildKDTree = "proto"
    /\ kdBuilt = FALSE
    /\ rendered = FALSE
    /\ notifyView = None
    /\ doneLists = <<>>
    /\ pending = <<>>
    /\ didBoost = FALSE
    /\ chartBuffer = FALSE
    /\ preCalls = <<>>
    /\ groupDestroyed = "none"
    /\ drewChart = FALSE
    /\ points = <<>>
    /\ pointTaken = {}
    /\ lastClientX = None
    /\ minI = None
    /\ maxI = None
    /\ minVal = None
    /\ maxVal = None
    /\ axisReads = 0
    /\ pos = 0
    /\ pc = "idle"

\* before the first renderCanvas of the series
RenderInit == (AnySeries \/ SampledSeries \/ AnyOptions \/ DenseColumns) /\ RenderStart

\* before the first render cycle of the chart
CycleInit == CycleSeries /\ RenderStart

\* no series when another part of the model is being exercised
RenderIdle ==
    /\ data = <<>>
    /\ sampling = FALSE /\ compareX = FALSE /\ inverted = FALSE
    /\ requireSorting = TRUE /\ enableMouseTracking = TRUE /\ visible = TRUE
    /\ forExport = FALSE /\ chartBoosting = FALSE
    /\ chartAlive = TRUE
    /\ isBoosting = FALSE
    /\ markerGroup = "none"
    /\ renderTarget = FALSE
    /\ chartRenderTarget = FALSE
    /\ buildKDTree = "proto"
    /\ kdBuilt = FALSE
    /\ rendered = FALSE
    /\ notifyView = None
    /\ doneLists = <<>>
    /\ pending = <<>>
    /\ didBoost = FALSE
    /\ chartBuffer = FALSE
    /\ preCalls = <<>>
    /\ groupDestroyed = "none"
    /\ drewChart = FALSE
    /\ points = <<>>
    /\ pointTaken = {}
    /\ lastClientX = None
    /\ minI = None
    /\ maxI = None
    /\ minVal = None
    /\ maxVal = None
    /\ axisReads = 0
    /\ pos = 0
    /\ pc = "idle"

\* ========================================================================
\* The specifications
\* ========================================================================

vars == <<shVars, trVars, fnVars, rcVars>>

\* the shader program manager
Init == ShaderInit /\ TranslateIdle /\ FnIdle /\ RenderIdle

Next == ShaderNext

Spec == Init /\ [][Next]_vars

\* the uniform setters on the manager GLShader(gl) made, its program
\* neither destroyed nor rebuilt
UniformsNext ==
    \/ Bind
    \/ SetUniform
    \/ SetTexture
    \/ SetInverted
    \/ SetDrawAsCircle
    \/ Reset
    \/ SetBubbleUniforms

SpecUniforms == Init /\ [][UniformsNext]_vars

\* the shader's translate()
TranslateSpecInit == TranslateInit /\ ShaderIdle /\ FnIdle /\ RenderIdle

SpecTranslate == TranslateSpecInit /\ [][Translate]_vars

\* renderCanvas on one series
RenderSpecInit == RenderInit /\ ShaderIdle /\ TranslateIdle /\ FnIdle

RenderNext ==
    \/ RenderCanvasWhenIdle
    \/ ProcessChunk
    \/ DestroyChart

SpecRender == RenderSpecInit /\ [][RenderNext]_vars

\* the render cycles of a chart with one series: predraw, then renderCanvas,
\* while the streams of earlier cycles may still have chunks to come
CycleSpecInit == CycleInit /\ ShaderIdle /\ TranslateIdle /\ FnIdle

CycleNext ==
    \/ PreRender
    \/ RenderCanvas
    \/ CanvasToSVG
    \/ ProcessChunk
    \/ ProcessEarlierChunk
    \/ DestroyChart

SpecCycle == CycleSpecInit /\ [][CycleNext]_vars

\* the vertex shader's bubbleRadius()
BubbleSpecInit ==
    /\ BubbleInit /\ LabelsIdle /\ GraphPathIdle /\ WilliamsIdle
    /\ ShaderIdle /\ TranslateIdle /\ RenderIdle

SpecBubble == BubbleSpecInit /\ [][BubbleRadius]_vars

\* hideOverlappingLabels on the labels of a chart
LabelsSpecInit ==
    /\ LabelsInit /\ BubbleIdle /\ GraphPathIdle /\ WilliamsIdle
    /\ ShaderIdle /\ TranslateIdle /\ RenderIdle

SpecLabels == LabelsSpecInit /\ [][HideOverlappingLabels]_vars

\* getGraphPath on the points array of a series
GraphPathSpecInit ==
    /\ GraphPathInit /\ BubbleIdle /\ LabelsIdle /\ WilliamsIdle
    /\ ShaderIdle /\ TranslateIdle /\ RenderIdle

SpecGraphPath == GraphPathSpecInit /\ [][GetGraphPath]_vars

\* the Williams %R indicator's getValues
WilliamsSpecInit ==
    /\ WilliamsInit /\ BubbleIdle /\ LabelsIdle /\ GraphPathIdle
    /\ ShaderIdle /\ TranslateIdle /\ RenderIdle

SpecWilliams == WilliamsSpecInit /\ [][GetValues]_vars

\* the timers eachAsync sets fire: a stream with chunks to come gets its
\* next chunk
SpecCycleFair == SpecCycle /\ WF_vars(ProcessChunk) /\ WF_vars(ProcessEarlierChunk)

\* ------------------------------------------------------------------------
\* Claims about the shader program manager
\* ------------------------------------------------------------------------

\* a createShader() call in which a compile or the link step failed
Failed(a) == ~a.vOk \/ ~a.fOk \/ ~a.lOk

\* the stages whose diagnostics a createShader() call with outcome a pushes
ExpectedStages(a) ==
    (IF a.vOk THEN {} ELSE {"vertex"}) \cup
    (IF a.fOk THEN {} ELSE {"fragment"}) \cup
    (IF a.lOk THEN {} ELSE {"link"})

\* the stages of attempt n whose diagnostics are in the report r
ReportedStages(r, n) == {r[i].stage : i \in {j \in 1..Len(r) : r[j].attempt = n}}

\* C1: every create() in which the vertex compile, the fragment compile or
\* the link fails returns false, leaves the program absent and reports the
\* diagnostics of that attempt through exactly one H.error call: the number
\* of H.error calls equals the number of attempts that pushed a diagnostic,
\* and the report of a failed attempt holds each of its diagnostics.
C1_FailedCreateReportsOnce ==
    /\ errorCalls = Cardinality({errors[i].attempt : i \in 1..Len(errors)})
    /\ (lastOp = "create" /\ gl /\ Failed(attempt)) =>
          /\ lastRet = FALSE
          /\ shaderProgram = 0
          /\ ~threw
          /\ ExpectedStages(attempt) # {}
          /\ ReportedStages(lastReport, attemptNo) = ExpectedStages(attempt)

\* C1 witness: a create() after a successful one, in which both shaders fail
\* to compile, has reported once
C1_Witness ==
    /\ lastOp = "create" /\ gl /\ attemptNo = 2
    /\ ~attempt.vOk /\ ~attempt.fOk
    /\ errorCalls = 1 /\ Len(lastReport) = 2

\* C2: after a create() that failed, every operation other than create()
\* issues no GPU call, raises no error, compiles nothing and leaves the
\* program absent, in any order and any number of times.
C2_FailedCreateDisables ==
    [][(phase = "failed" /\ attemptNo' = attemptNo) =>
          /\ lastGl' = <<>>
          /\ ~threw'
          /\ shaderProgram' = 0
          /\ programsCreated' = programsCreated
          /\ phase' = "failed"]_vars

\* C2 witness: bind() has run after a failed create()
C2_Witness == phase = "failed" /\ lastOp = "bind" /\ lastGl = <<>> /\ errorCalls = 1

\* C3: destroy() on a live program calls deleteProgram on it once and leaves
\* the program absent; no program is ever deleted twice; after destroy()
\* every operation other than create() makes no GPU call.
C3_DestroyReleasesOnce ==
    /\ [](\A p \in DOMAIN deleteCount : deleteCount[p] <= 1)
    /\ [][(lastOp' = "destroy" /\ gl /\ shaderProgram # 0) =>
             /\ lastGl' = <<Gl("deleteProgram", shaderProgram, "", 0)>>
             /\ deleteCount' = [deleteCount EXCEPT ![shaderProgram] = 1]
             /\ shaderProgram' = 0]_vars
    /\ [][(phase = "destroyed" /\ attemptNo' = attemptNo) =>
             lastGl' = <<>> /\ ~threw' /\ deleteCount' = deleteCount]_vars

\* C3 witness: destroy() has run a second time after the program was deleted
C3_Witness ==
    /\ phase = "destroyed" /\ lastOp = "destroy" /\ lastGl = <<>>
    /\ \E p \in DOMAIN deleteCount : deleteCount[p] = 1

\* C4: at most one GPU program created by the manager is live (created and
\* not yet deleted) in every state reachable by create() and destroy().
C4_AtMostOneLiveProgram == Cardinality(LivePrograms) <= 1

\* C5: setUniform(name, v) never passes the GPU a location that was obtained
\* from a program that has been destroyed.
C5_NoLocationOfDestroyedProgram ==
    lastOp = "setUniform" =>
        \A i \in 1..Len(lastGl) :
            lastGl[i].prog = 0 \/ deleteCount[lastGl[i].prog] = 0

\* C6: with the GPU context missing, every operation of the handle, create()
\* included, makes no GPU call and raises no error.
C6_NoContextNoOp == ~gl => (lastGl = <<>> /\ ~threw)

\* ------------------------------------------------------------------------
\* Claims about translate()
\* ------------------------------------------------------------------------

\* sign is -1 if cvsCoord else 1, negated once more if reversed
SignOf(a) == (IF a.cvsCoord THEN -1 ELSE 1) * (IF a.reversed THEN -1 ELSE 1)

\* C7 as stated: on a linear axis translate returns
\* sign*(value - min)*slope + (cvsCoord ? len : 0) + sign*minPad
C7_TranslateLinearAsStated ==
    (tPc = "done" /\ ~tIn.isLog) =>
        tOut = SignOf(tIn) * (tIn.val - tIn.localMin) * tIn.localA
               + (IF tIn.cvsCoord THEN tIn.len ELSE 0)
               + SignOf(tIn) * tIn.minPixelPadding

\* C7 amended: on a linear axis translate returns
\* sign*(value - min)*slope + offset + sign*minPad, where the offset is len
\* when exactly one of cvsCoord and reversed is set and 0 otherwise
C7_TranslateLinear ==
    (tPc = "done" /\ ~tIn.isLog) =>
        tOut = SignOf(tIn) * (tIn.val - tIn.localMin) * tIn.localA
               + (IF tIn.cvsCoord # tIn.reversed THEN tIn.len ELSE 0)
               + SignOf(tIn) * tIn.minPixelPadding

\* C7 witness: translate has returned for a reversed canvas-coordinate
\* linear axis, with a value above the axis minimum
C7_Witness ==
    /\ tPc = "done" /\ ~tIn.isLog /\ tIn.reversed /\ tIn.cvsCoord
    /\ tIn.val > tIn.localMin /\ tOut = 3

\* ------------------------------------------------------------------------
\* Claims about renderCanvas
\* ------------------------------------------------------------------------

\* the indices (from 0) of the data points that pass the per-point filter
VisibleIdx == {i \in 0..(Len(data) - 1) : PassesFilter(data[i + 1])}

\* the rounded device-pixel column of data point i
ColumnOf(i) == Ceil(xAxisToPixels(data[i + 1].x))

\* the pixel columns that hold a visible point
Columns == {ColumnOf(i) : i \in VisibleIdx}

\* C8: with sampling enabled, for a series with monotonic x whose N visible
\* points map to M < N distinct rounded pixel columns, the reduced point list
\* holds at most 2M points.
C8_SamplingAtMostTwoPerColumn ==
    (sampling /\ Monotonic(data) /\ Cardinality(Columns) < Cardinality(VisibleIdx)) =>
        Len(points) <= 2 * Cardinality(Columns)

\* the y values of the points retained from pixel column c
RetainedY(c) ==
    {data[points[k].i + 1].y[1] : k \in {j \in 1..Len(points) : ColumnOf(points[j].i) = c}}

\* C9: with sampling enabled, once the stream is complete, the points
\* retained for a pixel column include one whose y is >= every raw y of the
\* column's visible points and one whose y is <= every raw y of them.
C9_SamplingKeepsColumnExtremes ==
    (sampling /\ pc = "done" /\ Monotonic(data)) =>
        \A i \in VisibleIdx :
            /\ \E y \in RetainedY(ColumnOf(i)) : y >= data[i + 1].y[1]
            /\ \E y \in RetainedY(ColumnOf(i)) : y <= data[i + 1].y[1]

\* the dedup key of a point of the reduced point list
KeyOf(p) == IF compareX THEN <<Ceil(p.clientX)>> ELSE <<Ceil(p.clientX), p.plotY>>

\* C10: in every state of a renderCanvas pass no two points of the reduced
\* point list have the same dedup key: ceil(clientX) when findNearestPointBy
\* is 'x', the pair (ceil(clientX), plotY) otherwise.
C10_NoDuplicateKey ==
    \A j, k \in 1..Len(points) : j # k => KeyOf(points[j]) # KeyOf(points[k])

\* C10 witness: on an inverted chart, without sampling, a stream of three
\* visible points has completed and addKDPoint kept only two of them
C10_Witness ==
    /\ pc = "done" /\ ~sampling /\ inverted /\ ~compareX
    /\ Len(data) = 3 /\ Cardinality(VisibleIdx) = 3
    /\ Len(points) = 2

\* C11: when renderCanvas has run twice on the series, with the data, the
\* axis extremes and the options unchanged, and both streams have completed,
\* the two reduced point lists are the same: same length, same order, same
\* coordinates and indices.
C11_RerunSameList == Len(doneLists) = 2 => doneLists[1] = doneLists[2]

\* C11 witness: two passes over a sampled series have completed, and each
\* kept two points or more
C11_Witness ==
    /\ Len(doneLists) = 2 /\ sampling /\ pc = "done"
    /\ Len(doneLists[1]) >= 2 /\ Len(doneLists[2]) >= 2

\* C12: the original-data indices (field i) of the points of the reduced
\* point list never decrease along the list, with sampling on or off.
C12_ListInDataOrder ==
    \A k \in 1..(Len(points) - 1) : points[k].i <= points[k + 1].i

\* C13: while the stream of a renderCanvas pass of the series is in
\* progress, the series' buildKDTree is the no-op, also when the stream of an
\* earlier pass had chunks to come when the pass started and then completes.
C13_NoBuildWhileStreaming == pc = "streaming" => buildKDTree = "noop"

\* C14: whenever a renderCanvas pass has disabled the series' spatial-index
\* build, the build is eventually re-enabled, unless the chart is destroyed;
\* a pass made in export mode is no exception.
C14_BuildEventuallyReenabled ==
    [](buildKDTree = "noop" => <>(buildKDTree = "proto" \/ ~chartAlive))

\* C15: when 'renderedCanvas' is delivered to its listeners, the spatial
\* index is enabled and has been rebuilt from the new reduced point list.
C15_IndexBuiltWhenNotified ==
    notifyView # None => (notifyView[1].buildKDTree = "proto" /\ notifyView[1].kdBuilt)

\* C16: once the chart is destroyed, the next processPoint call of a stream
\* in progress returns false, so that the stream halts after that one call;
\* the call reads no axis, and from the destruction on the reduced point list
\* does not change.
C16_DestroyedChartHaltsStream ==
    /\ [][(~chartAlive /\ pc = "streaming" /\ pos < Len(data)) =>
             /\ pc' = "halted"
             /\ pos' = pos + 1
             /\ axisReads' = axisReads]_vars
    /\ [][~chartAlive => points' = points]_vars

\* C16 witness: the chart was destroyed after the first chunk, which emitted
\* a point, and the stream halted on a point that passes the filter
C16_Witness ==
    /\ pc = "halted" /\ ~chartAlive
    /\ pos = ChunkSize + 1 /\ PassesFilter(data[pos])
    /\ Len(points) >= 1 /\ axisReads >= 2

\* C17: the series never has a live render target of its own while the
\* chart's buffer is allocated for the current cycle.
C17_OneBufferOwner == ~(renderTarget /\ chartBuffer)

\* C18: when the chart's buffer is allocated for a cycle, the series' own
\* render target has been destroyed before; and when the series gets a
\* render target of its own, the chart's buffer is not allocated.
C18_TeardownBeforeAllocate ==
    [][/\ (chartBuffer' /\ ~chartBuffer) => ~renderTarget
       /\ (renderTarget' /\ ~renderTarget) => ~chartBuffer]_vars

\* C19: every point of the reduced point list comes from a data point whose
\* y is not null and whose x is within [xMin, xMax]; when the series does not
\* require sorting, its y is within [yMin, yMax] as well.
C19_ListedPointsPassFilter ==
    \A k \in 1..Len(points) :
        LET d == data[points[k].i + 1]
        IN  /\ d.y # None
            /\ d.x >= XAxis.min /\ d.x <= XAxis.max
            /\ ~requireSorting => (d.y[1] >= YAxis.min /\ d.y[1] <= YAxis.max)

\* C19 witness: a stream of three points, the first and the last of them
\* null, has completed and the list holds the one that is not
C19_Witness ==
    /\ pc = "done" /\ ~sampling /\ Len(data) = 3
    /\ data[1].y = None /\ data[3].y = None
    /\ Len(points) = 1 /\ points[1].i = 1

\* C20: every predraw resets chart.isBoosting to false; it allocates the
\* chart's buffer if and only if the chart is in chart-boosting mode and has
\* its canvas and GPU renderer; and when it allocates, it has cleared the
\* canvas (boostClear) before.
C20_PredrawClearsThenAllocates ==
    [][PreRender =>
          /\ ~isBoosting'
          /\ chartBuffer' = (chartBoosting' /\ chartRenderTarget)
          /\ chartBuffer' = (\E b \in 1..Len(preCalls') : preCalls'[b] = "allocateBuffer")
          /\ \A b \in 1..Len(preCalls') :
                preCalls'[b] = "allocateBuffer" =>
                    \E a \in 1..(b - 1) : preCalls'[a] = "boostClear"]_vars

\* C20 witness: a predraw after a renderCanvas in chart-boosting mode has
\* cleared the canvas and then allocated the chart's buffer
C20_Witness ==
    /\ ~isBoosting /\ chartBoosting /\ chartRenderTarget /\ chartBuffer /\ didBoost
    /\ preCalls = <<"boostClear", "allocateBuffer", "translate">>

\* ------------------------------------------------------------------------
\* Claims about the draw flags and the bubble uniforms
\* ------------------------------------------------------------------------

\* C21: when reset() has run on a manager that has its context and a
\* program, the draw flags isBubble and isCircle are both 0, whatever
\* setBubbleUniforms and setDrawAsCircle calls came before.
C21_ResetClearsDrawFlags ==
    (lastOp = "reset" /\ gl /\ shaderProgram # 0) =>
        (uniformVal["isBubble"] = Some(0) /\ uniformVal["isCircle"] = Some(0))

\* C21 witness: reset() has run after setBubbleUniforms had set the uniforms
\* of a bubble series on the current program
C21_Witness ==
    /\ lastOp = "reset" /\ gl /\ shaderProgram # 0
    /\ uLocations["bubbleZMin"] = shaderProgram
    /\ uniformVal["isBubble"] = Some(0) /\ uniformVal["isCircle"] = Some(0)

\* the bubbleZMin setBubbleUniforms is to write for a series: the series'
\* zMin option when given, else the calculated minimum, raised to the
\* threshold when negative values are not displayed
ExpectedZMin(series, zCalcMin) ==
    IF series.zMin # None THEN series.zMin[1]
    ELSE IF ~series.displayNegative
         THEN (IF zCalcMin > series.zThreshold THEN zCalcMin ELSE series.zThreshold)
         ELSE zCalcMin

\* what a setBubbleUniforms(series, zCalcMin, ...) step is to do
BubbleUniformsEffect(series, zCalcMin) ==
    IF series.type # "bubble"
    THEN lastGl' = <<>> /\ uniformVal' = uniformVal /\ uLocations' = uLocations
    ELSE (gl /\ shaderProgram # 0) =>
            /\ uniformVal'["isBubble"] = Some(1)
            /\ uniformVal'["isCircle"] = Some(1)
            /\ \E k \in 1..Len(lastGl') :
                  /\ lastGl'[k].fn = "uniform1f"
                  /\ lastGl'[k].name = "bubbleZMin"
                  /\ lastGl'[k].val = ExpectedZMin(series, zCalcMin)
            /\ \A k \in 1..Len(lastGl') :
                  lastGl'[k].name = "bubbleZMin" /\ lastGl'[k].fn = "uniform1f"
                      => lastGl'[k].val = ExpectedZMin(series, zCalcMin)

\* C22: setBubbleUniforms acts only on a series of type 'bubble'. For any
\* other type it makes no GPU call and changes no uniform or flag; for a
\* bubble series it sets isBubble and isCircle to 1 and writes bubbleZMin:
\* the zMin option if given, else max(zCalcMin, zThreshold) when
\* displayNegative is false, else zCalcMin.
C22_BubbleUniformsOnlyForBubbles ==
    [][lastOp' = "setBubbleUniforms" =>
          \A series \in BubbleSeries :
             \A zCalcMin \in ZCalcMins(series) :
                SetBubbleUniformsOf(series, zCalcMin)
                    => BubbleUniformsEffect(series, zCalcMin)]_vars

\* C22 witness: setBubbleUniforms has written a calculated minimum above the
\* threshold as bubbleZMin and set both flags
C22_Witness ==
    /\ lastOp = "setBubbleUniforms" /\ gl /\ shaderProgram # 0
    /\ uniformVal["isBubble"] = Some(1) /\ uniformVal["isCircle"] = Some(1)
    /\ \E k \in 1..Len(lastGl) :
          lastGl[k].fn = "uniform1f" /\ lastGl[k].name = "bubbleZMin" /\ lastGl[k].val = 2

\* the z range bubbleRadius is to size against: the uniforms' range, or with
\* absolute-value sizing the range from 0 to the larger of the two distances
\* from the threshold, the vertex value being shifted by the threshold
EffectiveZ(w, u) ==
    IF u.bubbleSizeAbs
    THEN [value |-> w - u.bubbleZThreshold,
          zMin |-> 0,
          zMax |-> IF u.bubbleZMax > u.bubbleZMin
                   THEN u.bubbleZMax - u.bubbleZThreshold
                   ELSE u.bubbleZMin - u.bubbleZThreshold]
    ELSE [value |-> w, zMin |-> u.bubbleZMin, zMax |-> u.bubbleZMax]

\* C23: in width-sizing mode, without and with absolute-value sizing, a z
\* value between the effective zMin and zMax gets the point size
\* ceil(minSize + t * (maxSize - minSize)), t its position in the effective
\* range, and that size lies within [bubbleMinSize, bubbleMaxSize].
C23_BubbleSizeInterpolates ==
    (bPc = "done" /\ ~bIn.u.bubbleSizeByArea) =>
        LET e == EffectiveZ(bIn.w, bIn.u)
        IN  (e.zMin <= e.value /\ e.value <= e.zMax /\ e.zMin < e.zMax) =>
                /\ bOut = bIn.u.bubbleMinSize
                          + CeilDiv((e.value - e.zMin)
                                      * (bIn.u.bubbleMaxSize - bIn.u.bubbleMinSize),
                                    e.zMax - e.zMin)
                /\ bOut >= bIn.u.bubbleMinSize
                /\ bOut <= bIn.u.bubbleMaxSize

\* ------------------------------------------------------------------------
\* Claims about the sampled list
\* ------------------------------------------------------------------------

\* C27: with sampling enabled (mouse tracking on, the chart not inverted),
\* every point of the reduced point list is
\* stored with the pixel column of the data point it indexes (its clientX
\* is the rounded pixel x of the data point at its index i), and once the
\* stream is complete every pixel column that holds a visible point, the
\* last one included, has a point in the list.
C27_SampledPointsInTheirColumn ==
    (sampling /\ enableMouseTracking /\ ~inverted) =>
        /\ \A k \in 1..Len(points) : points[k].clientX = ColumnOf(points[k].i)
        /\ pc = "done" => \A c \in Columns : \E k \in 1..Len(points) : points[k].clientX = c

\* ------------------------------------------------------------------------
\* Claims about the marker groups and the chart-level draw
\* ------------------------------------------------------------------------

\* C24: after renderCanvas on a visible series the series' marker group is
\* the chart's shared group if and only if the chart is in chart-boosting
\* mode; a private group held before a switch to chart boosting is
\* destroyed; a switch back to series boosting gives the series a private
\* group and does not destroy the chart's shared group.
C24_MarkerGroupFollowsMode ==
    [][(RenderCanvas /\ visible) =>
          /\ (markerGroup' = "chart") <=> chartBoosting
          /\ (markerGroup = "private" /\ chartBoosting) => groupDestroyed' = "private"
          /\ (markerGroup = "chart" /\ ~chartBoosting) =>
                (markerGroup' = "private" /\ groupDestroyed' = "none")
          /\ groupDestroyed' # "chart"]_vars

\* C24 witness: a renderCanvas in chart-boosting mode has destroyed the
\* private group the series held and taken the chart's group
C24_Witness ==
    /\ visible /\ chartBoosting /\ isBoosting
    /\ markerGroup = "chart" /\ groupDestroyed = "private"

\* C28: after every predraw chart.didBoost is true only if the chart is in
\* chart-boosting mode, and a 'render' event draws the chart-level buffer
\* (ogl.render(chart)) only when the chart is in chart-boosting mode.
C28_ChartDrawOnlyWhenChartBoosting ==
    [][/\ PreRender => (didBoost' => chartBoosting')
       /\ CanvasToSVG => (drewChart' => chartBoosting)]_vars

\* C28 witness: after a predraw in chart-boosting mode, which allocated the
\* chart's buffer and set didBoost, a 'render' event has drawn the chart
\* through its GPU renderer
C28_Witness ==
    /\ chartRenderTarget /\ chartBoosting /\ didBoost /\ chartBuffer /\ drewChart
    /\ preCalls = <<"boostClear", "allocateBuffer", "translate">>

\* ------------------------------------------------------------------------
\* Claims about the labels, the graph path and the Williams %R values
\* ------------------------------------------------------------------------

\* two boxes have a point in common, their edges included
Overlap(a, b) ==
    /\ Max(a.x, b.x) <= Min(a.x + a.width, b.x + b.width)
    /\ Max(a.y, b.y) <= Min(a.y + a.height, b.y + b.height)

\* the label objects the array holds
Listed == {labels[k] : k \in 1..Len(labels)}

\* label a is left visible and has a box
Shown(a) == labelObj[a].absoluteBox # None /\ labelObj[a].newOpacity = Some(1)

\* C25: when hideOverlappingLabels has returned, no two distinct labels of
\* the list that both have a box and are both left visible (newOpacity 1)
\* have intersecting boxes, and every hidden label intersects a label that
\* is left visible and whose labelrank is not lower than its own.
C25_NoVisibleOverlap ==
    hPc = "done" =>
        /\ \A a, b \in Listed :
              (a # b /\ Shown(a) /\ Shown(b)) =>
                  ~Overlap(labelObj[a].absoluteBox[1], labelObj[b].absoluteBox[1])
        /\ \A a \in Listed :
              labelObj[a].newOpacity # Some(1) =>
                  /\ labelObj[a].newOpacity = Some(0)
                  /\ labelObj[a].absoluteBox # None
                  /\ \E b \in Listed \ {a} :
                        /\ Shown(b)
                        /\ Overlap(labelObj[a].absoluteBox[1], labelObj[b].absoluteBox[1])
                        /\ ~RankLess(labelObj[b].labelrank, labelObj[a].labelrank)

\* C25 witness: of three labels in a row, each touching the next, the
\* middle one is hidden and the two outer ones are left visible
C25_Witness ==
    /\ hPc = "done" /\ Len(labels) = 3
    /\ \E a, b, c \in Listed :
          /\ labelObj[b].newOpacity = Some(0) /\ Shown(a) /\ Shown(c)
          /\ labelObj[a].absoluteBox[1].x = 0
          /\ labelObj[b].absoluteBox # None /\ labelObj[b].absoluteBox[1].x = 1
          /\ labelObj[c].absoluteBox[1].x = 2
          /\ labelObj[a].absoluteBox[1].y = labelObj[b].absoluteBox[1].y
          /\ labelObj[c].absoluteBox[1].y = labelObj[b].absoluteBox[1].y

\* C26: the polar getGraphPath wrapper leaves the points array with the
\* length and the elements it had before the call, also when the first
\* valid point was appended to connect the ends, and also after a second
\* call on the same array.
C26_PointsArrayUnmodified == PointIds(gPoints) = gGiven

\* C26 witness: getGraphPath has run twice on a polar series that connects
\* its ends; the wrapped method got the array with the first valid point
\* appended, and the array is as it was given
C26_Witness ==
    /\ gCalls = 2 /\ polar /\ connectEnds
    /\ Len(gGiven) >= 2 /\ gPoints[1].isNull
    /\ Len(gProceed) = Len(gGiven) + 1
    /\ gProceed[Len(gProceed)] = 2
    /\ PointIds(gPoints) = gGiven

\* the window of the last period rows that ends at row k (from 1)
Window(k) == (k - wIn.period + 1)..k

\* -100 * (HH - CC) / (HH - LL) for the window ending at row k, as the
\* fraction [num, den]
ExpectedR(k) ==
    LET HH == MaxOf({wIn.yData[j][2] : j \in Window(k)})
        LL == MinOf({wIn.yData[j][3] : j \in Window(k)})
        CC == wIn.yData[k][4]
    IN  [num |-> (-100) * (HH - CC), den |-> HH - LL]

\* C29: getValues returns false when the series has fewer than period
\* points or its y values are not 4-element arrays; otherwise values, xData
\* and yData have one entry for every index from period-1 to the last
\* point, in order, each value -100*(HH-CC)/(HH-LL) over its window.
C29_OneValuePerIndex ==
    wPc = "done" =>
        IF \/ Len(wIn.xData) < wIn.period
           \/ Len(wIn.yData) = 0
           \/ Len(wIn.yData[1]) # 4
        THEN ~wOut.ok
        ELSE LET count == Len(wIn.yData) - wIn.period + 1
             IN  /\ wOut.ok
                 /\ Len(wOut.values) = count
                 /\ Len(wOut.xData) = count
                 /\ Len(wOut.yData) = count
                 /\ \A k \in 1..count :
                       LET row == wIn.period - 1 + k
                       IN  /\ wOut.xData[k] = wIn.xData[row]
                           /\ wOut.yData[k] = ExpectedR(row)
                           /\ wOut.values[k] = <<wIn.xData[row], ExpectedR(row)>>

====
